---- MODULE Spec2Model ----
(***************************************************************************)
(* Poster-Builder (js/index.js): the preview state written by the input    *)
(* handlers, and the export pipeline downloadPreprocess -> decode of the   *)
(* SVG markup -> img.onload -> drawImage -> toDataURL -> download.         *)
(*                                                                         *)
(* The browser runs one callback at a time: every action below is one      *)
(* callback run to completion.  The three asynchronous completions         *)
(* (FileReader load, decode of the selected image, decode of the export    *)
(* markup) are pending records that complete in any order.                 *)
(*                                                                         *)
(* The repository holds a second copy of the script whose                  *)
(* downloadPreprocess wraps previewSection.innerHTML unconditionally in a  *)
(* canvas of the container's own height; the model follows js/index.js.    *)
(***************************************************************************)
EXTENDS Integers, Sequences, FiniteSets

\* ------------------------------------------------------------- bounds
MaxEvents == 4      \* user events in one run: keystrokes, style clicks,
                    \* reflows, file selections and export clicks

\* -------------------------------------------------- program constants
MaxImageWidth == 500
MaxImageHeight == 300
HeightPadding == 100
FilenameRange == 100000000

\* ---------------------------------------------------------- JS values
\* A JS string is a sequence of one-character strings.
Digits == <<"0", "1", "2", "3", "4", "5", "6", "7", "8", "9">>

\* String(undefined), what a template literal prints for a missing value
UndefinedText == <<"u", "n", "d", "e", "f", "i", "n", "e", "d">>

\* element.dataset.<key>: the attribute's text, or undefined when it is absent
NoAttr == [present |-> FALSE, text |-> <<>>]
Attr(s) == [present |-> TRUE, text |-> s]

RECURSIVE ToString(_)
\* String(n) for a non-negative integer (setAttribute stringifies its value)
ToString(n) ==
    IF n < 10 THEN <<Digits[n + 1]>>
    ELSE Append(ToString(n \div 10), Digits[(n % 10) + 1])

DigitValue(c) == CHOOSE d \in 0..9 : Digits[d + 1] = c

IsDigit(c) == \E d \in 0..9 : Digits[d + 1] = c

\* whether ToNumber of the string is a number rather than NaN
IsNumeric(s) == \A i \in 1..Len(s) : IsDigit(s[i])

RECURSIVE ToNumber(_)
\* ToNumber of a numeric string (the empty string is 0)
ToNumber(s) ==
    IF s = <<>> THEN 0
    ELSE 10 * ToNumber(SubSeq(s, 1, Len(s) - 1)) + DigitValue(s[Len(s)])

\* Mutant of JsGreater: the cap written as a string ("500"), so that the two
\* strings are compared character by character
JsGreaterLexical(v, n) ==
    /\ v.present
    /\ \E i \in 1..Len(v.text) :
          /\ \A j \in 1..(i - 1) : j <= Len(ToString(n)) /\ v.text[j] = ToString(n)[j]
          /\ \/ i > Len(ToString(n))
             \/ DigitValue(v.text[i]) > DigitValue(ToString(n)[i])

\* JS `v > n` for a dataset value v and a number n: undefined and
\* non-numeric strings convert to NaN and compare false
JsGreater(v, n) == v.present /\ IsNumeric(v.text) /\ ToNumber(v.text) > n

\* `${v}` for a dataset value
TemplateText(v) == IF v.present THEN v.text ELSE UndefinedText

\* `v > cap ? cap : v`, printed by the template literal
ClampText(v, cap) == IF JsGreater(v, cap) THEN ToString(cap) ELSE TemplateText(v)


\* ------------------------------------------------------------- inputs
\* The image files the picker can hand over, by natural size in pixels:
\* above both caps, below both, and on the width cap and just above the
\* height cap.
FileTable ==
    << [w |-> 1000, h |-> 800],
       [w |-> 300,  h |-> 200],
       [w |-> 500,  h |-> 301] >>

Files == DOMAIN FileTable

\* input.files is empty when the dialog is cancelled
NoFile == 0

\* reader.result: the data URL of file f, an opaque non-empty payload
DataUrlOf(f) == f

\* img.src of an <img> that has no src attribute: the empty string
NoSrc == 0

\* What the user can type into the heading and description fields
InputValues == {"Hello", "<br>", "a & b"}

\* element.innerHTML = value followed by element.textContent: the HTML
\* parser turns tags into elements, which have no text of their own
TextContent(html) == IF html = "<br>" THEN "" ELSE html

\* Whether text pasted unescaped into XML leaves the document well formed
\* (a bare ampersand does not)
XmlWellFormedText(text) == text # "a & b"

\* the two lists of applyTextStyles
AlignValues == {"left", "center", "right"}
ColorValues == {"blue-600", "black", "green-600"}

\* the style buttons pressed in a run: <<type, value>>
StyleInputs == {<<"color", "blue-600">>, <<"alignment", "center">>}

\* offsetWidth / offsetHeight of #previewSection, as layout leaves them:
\* the size at page load, and the size after a reflow
InitialSize == <<640, 480>>
ContainerSizes == {InitialSize, <<320, 0>>}

\* Math.floor(Math.random() * FilenameRange): the largest value it returns
\* (the filename is read by nothing in the page)
RandomSamples == {FilenameRange - 1}

\* -------------------------------------------------------------- state
VARIABLES
    headingHTML,     \* previews.heading.innerHTML as last assigned
    headingClasses,  \* previews.heading.classList, the text-* classes
    descriptionHTML, \* previews.description.innerHTML as last assigned
    imageSrc,        \* #image.src
    dataWidth,       \* previews.image.dataset.width
    dataHeight,      \* previews.image.dataset.height
    offsetSize,      \* <<offsetWidth, offsetHeight>> of #previewSection
    readers,         \* FileReaders whose load has not fired
    decoders,        \* new Image()s of the change handler still decoding
    exports,         \* export images (img of downloadPreprocess) still decoding
    bodyAnchors,     \* <a> elements attached to document.body
    downloads,       \* export ids of the files handed to the file saver, in order
    lastDownload,    \* the file most recently handed to the file saver, if any
    lastClick,       \* history: what the latest export click saw, if any
    outcome,         \* history: per click, "none" | "decoding" | "loaded" | "error"
    nEvents          \* history: user events so far

preview == <<headingHTML, headingClasses, descriptionHTML, imageSrc, dataWidth, dataHeight>>
pending == <<readers, decoders, exports>>
saver == <<bodyAnchors, downloads, lastDownload>>
history == <<lastClick, outcome, nEvents>>
vars == <<preview, offsetSize, pending, saver, history>>

Init ==
    /\ headingHTML = ""
    /\ headingClasses = {}
    /\ descriptionHTML = ""
    /\ imageSrc = NoSrc
    /\ dataWidth = NoAttr
    /\ dataHeight = NoAttr
    /\ offsetSize = InitialSize
    /\ readers = {}
    /\ decoders = {}
    /\ exports = {}
    /\ bodyAnchors = {}
    /\ downloads = << >>
    /\ lastDownload = << >>
    /\ lastClick = << >>
    /\ outcome = << >>
    /\ nEvents = 0

\* ----------------------------------------------------- input handlers
\* keyup on the heading or description field
Keyup(input, value) ==
    /\ nEvents < MaxEvents
    /\ nEvents' = nEvents + 1
    /\ IF input = "heading"
         THEN headingHTML' = value /\ UNCHANGED descriptionHTML
         ELSE descriptionHTML' = value /\ UNCHANGED headingHTML
    /\ UNCHANGED <<headingClasses, imageSrc, dataWidth, dataHeight, offsetSize,
                   pending, saver, lastClick, outcome>>

\* the class list after applyTextStyles(type, value)
StyledClasses(classes, type, value) ==
    LET list == IF type = "color" THEN ColorValues ELSE AlignValues
    IN  (classes \ list) \cup {value}

applyTextStyles(type, value) ==
    /\ nEvents < MaxEvents
    /\ nEvents' = nEvents + 1
    /\ headingClasses' = StyledClasses(headingClasses, type, value)
    /\ UNCHANGED <<headingHTML, descriptionHTML, imageSrc, dataWidth, dataHeight,
                   offsetSize, pending, saver, lastClick, outcome>>

\* the browser lays the preview section out again (window resize, new content)
Reflow ==
    /\ nEvents < MaxEvents
    /\ nEvents' = nEvents + 1
    /\ offsetSize' \in ContainerSizes \ {offsetSize}
    /\ UNCHANGED <<preview, pending, saver, lastClick, outcome>>

\* a tag telling apart the pending reads and decodes of one file
FreshTag ==
    LET used == {r.id : r \in readers \cup decoders}
    IN  CHOOSE i \in 1..(Cardinality(used) + 1) :
            i \notin used /\ \A j \in 1..(i - 1) : j \in used

\* change on the file input: start a FileReader on the selected file, if any
ImageChange(file) ==
    /\ nEvents < MaxEvents
    /\ IF file # NoFile
         THEN /\ readers' = readers \cup {[id |-> FreshTag, file |-> file]}
              /\ nEvents' = nEvents + 1
         ELSE UNCHANGED <<readers, nEvents>>
    /\ UNCHANGED <<preview, offsetSize, decoders, exports, saver,
                   lastClick, outcome>>

\* reader.onload: show the payload and start decoding it for its natural size
ReaderOnload(r) ==
    /\ r \in readers
    /\ imageSrc' = DataUrlOf(r.file)
    /\ readers' = readers \ {r}
    /\ decoders' = decoders \cup {r}
    /\ UNCHANGED <<headingHTML, headingClasses, descriptionHTML, dataWidth, dataHeight,
                   offsetSize, exports, saver, history>>

\* image.onload: record the natural size on the image preview container
ImageOnload(d) ==
    /\ d \in decoders
    /\ dataWidth' = Attr(ToString(FileTable[d.file].w))
    /\ dataHeight' = Attr(ToString(FileTable[d.file].h))
    /\ decoders' = decoders \ {d}
    /\ UNCHANGED <<headingHTML, headingClasses, descriptionHTML, imageSrc,
                   offsetSize, readers, exports, saver, history>>

\* ------------------------------------------------------ the serializer
\* getHeadingComputedStyle: the resolved text-align, color and font-size of
\* the heading under the stylesheet's text-* classes
ComputedAlign(classes) ==
    IF classes \cap AlignValues = {} THEN "start"
    ELSE CHOOSE a \in classes \cap AlignValues : TRUE

ComputedColor(classes) ==
    IF classes \cap ColorValues = {} THEN "initial"
    ELSE CHOOSE c \in classes \cap ColorValues : TRUE

getHeadingComputedStyle(classes) ==
    <<ComputedAlign(classes), ComputedColor(classes), "font-size">>

Element(tag, style, text, src, width, height) ==
    [tag |-> tag, style |-> style, text |-> text, src |-> src,
     width |-> width, height |-> height]

\* Mutant of HeadingPart: the test reads innerHTML instead of textContent
HeadingPartByHTML(hHTML, classes) ==
    IF hHTML # ""
      THEN << Element("h1", getHeadingComputedStyle(classes), TextContent(hHTML),
                      NoSrc, <<>>, <<>>) >>
      ELSE << >>

\* line 162-166: the heading element, if the heading has text
HeadingPart(hHTML, classes) ==
    IF TextContent(hHTML) # ""
      THEN << Element("h1", getHeadingComputedStyle(classes), TextContent(hHTML),
                      NoSrc, <<>>, <<>>) >>
      ELSE << >>

\* line 168-177: the image element, if #image has a source
ImagePart(src, dw, dh) ==
    IF src # NoSrc
      THEN << Element("img", <<"display: block", "margin: 0 auto">>, "", src,
                      ClampText(dw, MaxImageWidth), ClampText(dh, MaxImageHeight)) >>
      ELSE << >>

\* line 179: the paragraph element, if the description has text
DescriptionPart(dHTML) ==
    IF TextContent(dHTML) # ""
      THEN << Element("p", <<"white-space: pre-wrap">>, TextContent(dHTML),
                      NoSrc, <<>>, <<>>) >>
      ELSE << >>

\* line 161-179: `content` before it is wrapped
Content(hHTML, classes, src, dw, dh, dHTML) ==
    HeadingPart(hHTML, classes) \o ImagePart(src, dw, dh) \o DescriptionPart(dHTML)

\* Mutant of NewCanvas: the canvas takes the container's height as it is
NewCanvasNoPadding(size) ==
    [width |-> size[1], height |-> size[2], picture |-> << >>]

\* line 151-155: the canvas created for an export
NewCanvas(size) ==
    [width |-> size[1], height |-> size[2] + HeightPadding, picture |-> << >>]

\* line 183-191: the <svg> wrapper around the fragment
SvgMarkup(content, canvas) ==
    [width |-> canvas.width, height |-> canvas.height, body |-> content]

\* whether the browser can decode the markup as an image
WellFormed(markup) ==
    \A i \in 1..Len(markup.body) : XmlWellFormedText(markup.body[i].text)

\* what an export click reads
Snapshot ==
    [headingHTML |-> headingHTML, headingClasses |-> headingClasses,
     descriptionHTML |-> descriptionHTML, imageSrc |-> imageSrc,
     dataWidth |-> dataWidth, dataHeight |-> dataHeight, offsetSize |-> offsetSize]

\* Mutant of NewExports: the markup is wrapped and decoded whatever it holds
NewExportsUnguarded(id, content, canvas, saw) ==
    {[id |-> id, canvas |-> canvas, src |-> SvgMarkup(content, canvas), saw |-> saw]}

\* Mutant of NewExports: a click is ignored while an export is decoding
NewExportsOneAtATime(id, content, canvas, saw) ==
    IF content # << >> /\ exports = {}
      THEN {[id |-> id, canvas |-> canvas, src |-> SvgMarkup(content, canvas),
             saw |-> saw]}
      ELSE {}

\* line 182-208: the images whose decode a click starts, none when there
\* is no content; `saw` is what the click read (history)
NewExports(id, content, canvas, saw) ==
    IF content # << >>
      THEN {[id |-> id, canvas |-> canvas, src |-> SvgMarkup(content, canvas),
             saw |-> saw]}
      ELSE {}

\* Mutant of downloadPreprocess: the clamped size is stored back on the
\* image preview container
downloadPreprocessWriteBack ==
    /\ nEvents < MaxEvents
    /\ nEvents' = nEvents + 1
    /\ LET canvas == NewCanvas(offsetSize)
           content == Content(headingHTML, headingClasses, imageSrc,
                              dataWidth, dataHeight, descriptionHTML)
           started == NewExports(Len(outcome) + 1, content, canvas, Snapshot)
       IN  /\ exports' = exports \cup started
           /\ outcome' = Append(outcome, IF started = {} THEN "none" ELSE "decoding")
    /\ lastClick' = << Snapshot >>
    /\ IF imageSrc # NoSrc
         THEN /\ dataWidth' = Attr(ClampText(dataWidth, MaxImageWidth))
              /\ dataHeight' = Attr(ClampText(dataHeight, MaxImageHeight))
         ELSE UNCHANGED <<dataWidth, dataHeight>>
    /\ UNCHANGED <<headingHTML, headingClasses, descriptionHTML, imageSrc,
                   offsetSize, readers, decoders, saver>>

\* Mutant of downloadPreprocess: the canvas is encoded and downloaded right
\* after img.src is assigned, without waiting for the load event
downloadPreprocessNoWait ==
    /\ nEvents < MaxEvents
    /\ nEvents' = nEvents + 1
    /\ LET canvas == NewCanvas(offsetSize)
           content == Content(headingHTML, headingClasses, imageSrc,
                              dataWidth, dataHeight, descriptionHTML)
           started == NewExports(Len(outcome) + 1, content, canvas, Snapshot)
       IN  /\ outcome' = Append(outcome, IF started = {} THEN "none" ELSE "decoding")
           /\ downloads' = downloads \o
                  [i \in 1..Cardinality(started) |-> Len(outcome) + 1]
    /\ lastClick' = << Snapshot >>
    /\ UNCHANGED <<preview, offsetSize, pending, bodyAnchors, lastDownload>>

\* click on the export button
downloadPreprocess ==
    /\ nEvents < MaxEvents
    /\ nEvents' = nEvents + 1
    /\ LET canvas == NewCanvas(offsetSize)
           content == Content(headingHTML, headingClasses, imageSrc,
                              dataWidth, dataHeight, descriptionHTML)
           started == NewExports(Len(outcome) + 1, content, canvas, Snapshot)
       IN  /\ exports' = exports \cup started
           /\ outcome' = Append(outcome, IF started = {} THEN "none" ELSE "decoding")
    /\ lastClick' = << Snapshot >>
    /\ UNCHANGED <<preview, offsetSize, readers, decoders, saver>>

\* ----------------------------------------------- rasterize and download
\* ctx.drawImage(img, 0, 0)
DrawImage(canvas, img) ==
    [canvas EXCEPT !.picture = Append(canvas.picture, [image |-> img, x |-> 0, y |-> 0])]

\* canvas.toDataURL(): the PNG of the canvas bitmap
ToDataURL(canvas) == [type |-> "image/png", bitmap |-> canvas]

\* Mutant of download: the anchor is left in the body
downloadNoRemove(dataUrl, random, body) ==
    LET a == [href |-> dataUrl, download |-> <<"Poster_", random, ".png">>]
        appended == body \cup {a}
        activated == IF a \in appended THEN << a >> ELSE << >>
    IN  [body |-> appended, activated |-> activated,
         attached |-> Cardinality(appended)]

\* download(dataUrl) with `random` the value of Math.floor(Math.random() * ...):
\* the body's anchors when it returns, what the click handed to the file
\* saver, and how many anchors the body held when it was clicked
download(dataUrl, random, body) ==
    LET a == [href |-> dataUrl, download |-> <<"Poster_", random, ".png">>]
        appended == body \cup {a}
        activated == IF a \in appended THEN << a >> ELSE << >>
        removed == appended \ {a}
    IN  [body |-> removed, activated |-> activated,
         attached |-> Cardinality(appended)]

\* Mutant of ExportOnload: the markup and the canvas are built when the load
\* event fires, from the preview as it is then
ExportOnloadLate(e) ==
    /\ e \in exports
    /\ WellFormed(e.src)
    /\ \E random \in RandomSamples :
         LET blank == NewCanvas(offsetSize)
             content == Content(headingHTML, headingClasses, imageSrc,
                                dataWidth, dataHeight, descriptionHTML)
             canvas == DrawImage(blank, SvgMarkup(content, blank))
             d == download(ToDataURL(canvas), random, bodyAnchors)
         IN  /\ bodyAnchors' = d.body
             /\ downloads' = downloads \o [i \in 1..Len(d.activated) |-> e.id]
             /\ lastDownload' =
                  IF d.activated = << >> THEN lastDownload
                  ELSE << [export |-> e.id, file |-> d.activated[1],
                           attached |-> d.attached, saw |-> e.saw,
                           changed |-> e.saw # Snapshot] >>
    /\ exports' = exports \ {e}
    /\ outcome' = [outcome EXCEPT ![e.id] = "loaded"]
    /\ UNCHANGED <<preview, offsetSize, readers, decoders, lastClick, nEvents>>

\* img.onload of an export: draw, encode, download
ExportOnload(e) ==
    /\ e \in exports
    /\ WellFormed(e.src)
    /\ \E random \in RandomSamples :
         LET canvas == DrawImage(e.canvas, e.src)
             d == download(ToDataURL(canvas), random, bodyAnchors)
         IN  /\ bodyAnchors' = d.body
             /\ downloads' = downloads \o [i \in 1..Len(d.activated) |-> e.id]
             /\ lastDownload' =
                  IF d.activated = << >> THEN lastDownload
                  ELSE << [export |-> e.id, file |-> d.activated[1],
                           attached |-> d.attached, saw |-> e.saw,
                           changed |-> e.saw # Snapshot] >>
    /\ exports' = exports \ {e}
    /\ outcome' = [outcome EXCEPT ![e.id] = "loaded"]
    /\ UNCHANGED <<preview, offsetSize, readers, decoders, lastClick, nEvents>>

\* the decode of an export's markup fails: the error event has no listener
ExportOnerror(e) ==
    /\ e \in exports
    /\ ~WellFormed(e.src)
    /\ exports' = exports \ {e}
    /\ outcome' = [outcome EXCEPT ![e.id] = "error"]
    /\ UNCHANGED <<preview, offsetSize, readers, decoders, saver,
                   lastClick, nEvents>>

Next ==
    \/ \E input \in {"heading", "description"}, value \in InputValues : Keyup(input, value)
    \/ \E style \in StyleInputs : applyTextStyles(style[1], style[2])
    \/ Reflow
    \/ \E file \in Files \cup {NoFile} : ImageChange(file)
    \/ \E r \in readers : ReaderOnload(r)
    \/ \E d \in decoders : ImageOnload(d)
    \/ downloadPreprocess
    \/ \E e \in exports : ExportOnload(e)
    \/ \E e \in exports : ExportOnerror(e)

Spec == Init /\ [][Next]_vars

\* ---------------------------------------------------------- the claims
Min(a, b) == IF a < b THEN a ELSE b

\* The markup of every export in flight and of the latest download, with
\* what its click saw and the canvas it goes onto
Exported ==
    {[saw |-> e.saw, markup |-> e.src, canvas |-> e.canvas] : e \in exports}
    \cup {[saw |-> lastDownload[i].saw,
           markup |-> lastDownload[i].file.href.bitmap.picture[1].image,
           canvas |-> lastDownload[i].file.href.bitmap] : i \in DOMAIN lastDownload}

\* all three sections empty in what a click saw
AllEmpty(saw) ==
    /\ TextContent(saw.headingHTML) = ""
    /\ saw.imageSrc = NoSrc
    /\ TextContent(saw.descriptionHTML) = ""

Tags(body) == [i \in DOMAIN body |-> body[i].tag]

\* C1: every emitted image element has width min(W, 500) and height
\* min(H, 300), for the natural size (W, H) recorded on the image preview
\* container when the export was clicked.
C1_ClampedDimensions ==
    \A x \in Exported : \A i \in DOMAIN x.markup.body :
        x.markup.body[i].tag = "img" =>
            \A f \in Files :
                /\ x.saw.dataWidth = Attr(ToString(FileTable[f].w)) =>
                     x.markup.body[i].width = ToString(Min(FileTable[f].w, MaxImageWidth))
                /\ x.saw.dataHeight = Attr(ToString(FileTable[f].h)) =>
                     x.markup.body[i].height = ToString(Min(FileTable[f].h, MaxImageHeight))

\* a downloaded poster whose image was recorded as 1000x800 and emitted as 500x300
C1_Witness ==
    \E i \in DOMAIN lastDownload :
        LET body == lastDownload[i].file.href.bitmap.picture[1].image.body
        IN  \E j \in DOMAIN body :
               /\ body[j].tag = "img"
               /\ lastDownload[i].saw.dataWidth = Attr(<<"1", "0", "0", "0">>)
               /\ lastDownload[i].saw.dataHeight = Attr(<<"8", "0", "0">>)
               /\ body[j].width = <<"5", "0", "0">>
               /\ body[j].height = <<"3", "0", "0">>

C3_DownloadOnlyAfterDecode ==
    /\ \A i \in DOMAIN downloads : outcome[downloads[i]] = "loaded"
    /\ \A i \in DOMAIN lastDownload :
          /\ outcome[lastDownload[i].export] = "loaded"
          /\ Len(lastDownload[i].file.href.bitmap.picture) = 1
    /\ \A e \in exports : e.canvas.picture = << >> /\ outcome[e.id] = "decoding"
    /\ \A k \in DOMAIN outcome :
          outcome[k] \in {"error", "decoding"} => \A i \in DOMAIN downloads : downloads[i] # k

\* one export failed to decode and another was downloaded
C3_Witness ==
    /\ \E k \in DOMAIN outcome : outcome[k] = "error"
    /\ Len(downloads) >= 1

\* the recorded size is the natural size of one of the files
StoredNatural ==
    dataWidth.present =>
        \E f \in Files : /\ dataWidth = Attr(ToString(FileTable[f].w))
                         /\ dataHeight = Attr(ToString(FileTable[f].h))

\* C4: no step of an export (click, decode completion, draw, download)
\* changes the heading, the image payload, the description or the recorded
\* natural size, and the recorded size always is a natural size.
C4_ExportLeavesPreviewAlone ==
    /\ [][(outcome' # outcome \/ exports' # exports \/ downloads' # downloads)
            => preview' = preview]_vars
    /\ []StoredNatural

\* two posters downloaded of an image recorded as 1000 wide, the second
\* emitted 500 wide, and the container still says 1000
C4_Witness ==
    /\ Len(downloads) = 2
    /\ dataWidth = Attr(<<"1", "0", "0", "0">>)
    /\ \E i \in DOMAIN lastDownload :
          LET body == lastDownload[i].file.href.bitmap.picture[1].image.body
          IN  /\ lastDownload[i].saw.dataWidth = dataWidth
              /\ \E j \in DOMAIN body : body[j].tag = "img" /\ body[j].width = <<"5", "0", "0">>

\* the elements a fragment must hold for what the click saw
ExpectedTags(saw) ==
    (IF TextContent(saw.headingHTML) # "" THEN << "h1" >> ELSE << >>)
    \o (IF saw.imageSrc # NoSrc THEN << "img" >> ELSE << >>)
    \o (IF TextContent(saw.descriptionHTML) # "" THEN << "p" >> ELSE << >>)

C6_NoAnchorPersists ==
    /\ bodyAnchors = {}
    /\ \A i \in DOMAIN lastDownload : lastDownload[i].attached = 1
    /\ \A i, j \in DOMAIN downloads : i # j => downloads[i] # downloads[j]
    /\ Len(downloads) = Cardinality({k \in DOMAIN outcome : outcome[k] = "loaded"})

\* two posters were downloaded
C6_Witness == Len(downloads) >= 2 /\ bodyAnchors = {}

C8_SingleActiveExport == Cardinality(exports) <= 1

\* C8 amended: every export click that finds content starts its own export,
\* whether or not another is decoding; the exports in flight are exactly the
\* clicks whose decode has not completed.
C8_InFlightPerClick ==
    /\ \A k \in DOMAIN outcome : outcome[k] = "decoding" <=> \E e \in exports : e.id = k
    /\ \A e1, e2 \in exports : e1.id = e2.id => e1 = e2
    /\ (lastClick # << >> /\ ~AllEmpty(lastClick[1])) => outcome[Len(outcome)] # "none"

\* two exports are decoding at once
C8_Witness == Cardinality(exports) = 2

\* C9 as stated: an emitted image element carries the clamped natural size
\* of the image whose payload is its src.
C9_DimensionsOfEmittedImage ==
    \A x \in Exported : \A i \in DOMAIN x.markup.body :
        LET el == x.markup.body[i]
        IN  el.tag = "img" =>
              /\ el.width = ToString(Min(FileTable[el.src].w, MaxImageWidth))
              /\ el.height = ToString(Min(FileTable[el.src].h, MaxImageHeight))

\* the fragment and canvas downloadPreprocess builds from what a click saw
ContentOf(saw) ==
    Content(saw.headingHTML, saw.headingClasses, saw.imageSrc,
            saw.dataWidth, saw.dataHeight, saw.descriptionHTML)

\* C10: the markup, the canvas size and the payload of an export are those
\* of the preview and container at its click, whatever happens before the
\* decode completes.
C10_CapturedAtClick ==
    /\ \A e \in exports :
          /\ e.canvas = NewCanvas(e.saw.offsetSize)
          /\ e.src = SvgMarkup(ContentOf(e.saw), NewCanvas(e.saw.offsetSize))
    /\ \A i \in DOMAIN lastDownload :
          lastDownload[i].file.href =
              ToDataURL(DrawImage(NewCanvas(lastDownload[i].saw.offsetSize),
                                  SvgMarkup(ContentOf(lastDownload[i].saw),
                                            NewCanvas(lastDownload[i].saw.offsetSize))))

\* a poster was downloaded after the preview or the container had changed
\* since its click
C10_Witness == \E i \in DOMAIN lastDownload : lastDownload[i].changed

====
